---- MODULE Spec2Model ----
(***************************************************************************)
(* DocShield (easybytehub/docshield): the image-compositing pipeline of    *)
(* src/lib/watermark.ts.                                                   *)
(*                                                                         *)
(* Numbers.  Image and canvas dimensions are integers.  Every other        *)
(* length of the pipeline (font size, text positions, line widths) is a    *)
(* rational with a small denominator; it is kept as an integer count of    *)
(* 1/10000 pixel ("units"), so that the products by 1.1, 1.25, 0.15, 0.55, *)
(* 0.9, 1.2, 1.5 and the division by 50 of the source are exact.           *)
(* A text is a sequence of one-character strings.                          *)
(*                                                                         *)
(* Specifications.  Spec: one invocation of processImage, step by step.    *)
(* SpecWrap: wrapText alone.  SpecGray: applyGrayscaleMask with            *)
(* createScribblePattern on a small surface.  SpecWarp: applyWatermark     *)
(* with the column loop of warpTextColumns.  SpecTile:                     *)
(* drawHorizontalTextPattern.  SpecPage: the upload page (Home and its     *)
(* handleImageUpload) with several uploads in flight.                      *)
(***************************************************************************)
EXTENDS Integers, Sequences, FiniteSets, TLC

VARIABLES
    pc,        \* position of the processImage invocation
    img,       \* the decoded input image: [width, height]
    text,      \* the watermarkText argument
    canvas,    \* the output canvas: [present, width, height, painted]
    ctxs,      \* outcome of each getContext("2d") call made so far
    resized,   \* the canvas resizeImage returned: [width, height, drawn]
    layout,    \* positions computed by processImage, in units
    log,       \* the pipeline steps executed so far, in order
    previews,  \* the URLs handed to setPreview, in order
    given,     \* the output canvas as it was when processImage was called
    wrap,      \* one call of wrapText: its arguments and its result
    gray,      \* one call of applyGrayscaleMask: the pixels and the mask
    warp,      \* one call of applyWatermark: the wave and the column loop
    tile,      \* one call of drawHorizontalTextPattern: the tiles drawn
    page       \* the upload page: its React state and the uploads in flight

pipeline == <<pc, img, text, canvas, ctxs, resized, layout, log, previews, given>>
vars == <<pc, img, text, canvas, ctxs, resized, layout, log, previews, given,
          wrap, gray, warp, tile, page>>

(***************************************************************************)
(* Program constants.                                                      *)
(***************************************************************************)
MAX_WIDTH == 2500
MAX_HEIGHT == 2500
\* A canvas element is 300 x 150 until its width and height are set.
DefaultCanvasWidth == 300
DefaultCanvasHeight == 150

(***************************************************************************)
(* Bounds of the model.                                                    *)
(***************************************************************************)
MaxSmallDim == 3      \* image sides 1..MaxSmallDim
NearMax == 1          \* image sides within NearMax of the 2500 limit
MaxTextLen == 5       \* longest watermark text of the pipeline
MaxWrapLen == 5       \* longest text given to wrapText alone
MaxWidthSteps == 6    \* wrapText alone: maxWidth is 0, 4, .. 4 * MaxWidthSteps px
MaskHeight == 5       \* height of the surface given to applyGrayscaleMask
RandSteps == 4        \* Math.random() is one of 0, 1/RandSteps, .. below 1
MaxTileSide == 40     \* drawHorizontalTextPattern: the area is at most this wide
MaxUploads == 2       \* the page: uploads started, so as many can be in flight

Min(a, b) == IF a <= b THEN a ELSE b
Max(a, b) == IF a >= b THEN a ELSE b

\* Math.round(n / d) for d > 0: the nearest integer, a half rounds up.
RoundDiv(n, d) == (2 * n + d) \div (2 * d)

\* Conversion of the non-negative number n / d to an IDL unsigned long
\* (canvas.width = ..., getImageData's arguments): the fraction is dropped.
TruncDiv(n, d) == n \div d

(***************************************************************************)
(* resizeImage (watermark.ts 11-31).  Without a 2D context the temporary   *)
(* canvas is returned as created: 300 x 150 and never drawn on.            *)
(***************************************************************************)
resizeImage(w, h, ctxOk) ==
    IF ~ctxOk
    THEN [width |-> DefaultCanvasWidth, height |-> DefaultCanvasHeight, drawn |-> FALSE]
    ELSE IF w > MAX_WIDTH \/ h > MAX_HEIGHT
         THEN \* scaleFactor = min(MAX_WIDTH / w, MAX_HEIGHT / h) = num / den
              LET widthBinds == MAX_WIDTH * h <= MAX_HEIGHT * w
                  num == IF widthBinds THEN MAX_WIDTH ELSE MAX_HEIGHT
                  den == IF widthBinds THEN w ELSE h
              IN  [width |-> RoundDiv(w * num, den),
                   height |-> RoundDiv(h * num, den),
                   drawn |-> TRUE]
         ELSE [width |-> w, height |-> h, drawn |-> TRUE]

(***************************************************************************)
(* wrapText (watermark.ts 109-128).                                        *)
(***************************************************************************)
\* The characters /\s/ matches and trim() strips (one set in JavaScript):
\* here the space and the tab.
WhiteSpace == {" ", "\t"}

IsSpace(c) == c \in WhiteSpace

RECURSIVE TrimStart(_)
TrimStart(s) ==
    IF s # <<>> /\ IsSpace(Head(s)) THEN TrimStart(Tail(s)) ELSE s

RECURSIVE TrimEnd(_)
TrimEnd(s) ==
    IF s # <<>> /\ IsSpace(s[Len(s)]) THEN TrimEnd(SubSeq(s, 1, Len(s) - 1)) ELSE s

\* String.prototype.trim
Trim(s) == TrimEnd(TrimStart(s))

\* s.split(/\s+/): the fields between maximal runs of whitespace.  cur is the
\* field being read, inRun tells that the last character read was whitespace.
RECURSIVE SplitFrom(_, _, _, _)
SplitFrom(s, cur, inRun, acc) ==
    IF s = <<>> THEN Append(acc, cur)
    ELSE IF IsSpace(Head(s))
         THEN IF inRun THEN SplitFrom(Tail(s), cur, TRUE, acc)
                       ELSE SplitFrom(Tail(s), <<>>, TRUE, Append(acc, cur))
         ELSE SplitFrom(Tail(s), Append(cur, Head(s)), FALSE, acc)

\* s.split(" "): a field ends at every whitespace character, so that a run
\* of them gives empty fields.
RECURSIVE SplitEach(_, _, _)
SplitEach(s, cur, acc) ==
    IF s = <<>> THEN Append(acc, cur)
    ELSE IF IsSpace(Head(s)) THEN SplitEach(Tail(s), <<>>, Append(acc, cur))
         ELSE SplitEach(Tail(s), Append(cur, Head(s)), acc)

SplitAtEverySpace(s) == SplitEach(s, <<>>, <<>>)

SplitWhitespace(s) == SplitFrom(s, <<>>, FALSE, <<>>)

\* The estimated width of a line of n characters, in units, at a font size
\* given in units: n * (fontSize * 0.55).
EstWidth(n, fontSize) == n * ((fontSize * 11) \div 20)

\* The forEach body of wrapText on the words from index i on.
RECURSIVE WrapFrom(_, _, _, _, _, _)
WrapFrom(words, i, currentLine, lines, maxWidth, fontSize) ==
    IF i > Len(words)
    THEN IF currentLine # <<>> THEN Append(lines, currentLine) ELSE lines
    ELSE LET word == words[i]
             testLine == IF currentLine # <<>> THEN currentLine \o <<" ">> \o word
                                               ELSE word
         IN  IF EstWidth(Len(testLine), fontSize) > maxWidth
             THEN WrapFrom(words, i + 1, word,
                           IF currentLine # <<>> THEN Append(lines, currentLine) ELSE lines,
                           maxWidth, fontSize)
             ELSE WrapFrom(words, i + 1, testLine, lines, maxWidth, fontSize)

\* wrapText with the width test made on the line so far instead of on the
\* line with the next word added.
RECURSIVE WrapFromLate(_, _, _, _, _, _)
WrapFromLate(words, i, currentLine, lines, maxWidth, fontSize) ==
    IF i > Len(words)
    THEN IF currentLine # <<>> THEN Append(lines, currentLine) ELSE lines
    ELSE LET word == words[i]
             testLine == IF currentLine # <<>> THEN currentLine \o <<" ">> \o word
                                               ELSE word
         IN  IF EstWidth(Len(currentLine), fontSize) > maxWidth
             THEN WrapFromLate(words, i + 1, word, Append(lines, currentLine),
                               maxWidth, fontSize)
             ELSE WrapFromLate(words, i + 1, testLine, lines, maxWidth, fontSize)

wrapTextLateBreak(t, maxWidth, fontSize) ==
    WrapFromLate(SplitWhitespace(Trim(t)), 1, <<>>, <<>>, maxWidth, fontSize)

wrapText(t, maxWidth, fontSize) ==
    WrapFrom(SplitWhitespace(Trim(t)), 1, <<>>, <<>>, maxWidth, fontSize)

(***************************************************************************)
(* The numbers of processImage (watermark.ts 58-87), in units.             *)
(***************************************************************************)
Units(px) == px * 10000

\* canvasWidth = imgWidth * 1.1 and canvasHeight = imgHeight * 1.25: the
\* numbers every later drawing call is given.
canvasWidthOf(imgWidth) == (Units(imgWidth) * 11) \div 10
canvasHeightOf(imgHeight) == (Units(imgHeight) * 5) \div 4

\* canvas.width = canvasWidth; canvas.height = canvasHeight: what the canvas
\* keeps of them, an unsigned long.
SurfaceWidthRounded(imgWidth) == RoundDiv(canvasWidthOf(imgWidth), Units(1))
SurfaceWidthOf(imgWidth) == TruncDiv(canvasWidthOf(imgWidth), Units(1))
SurfaceHeightOf(imgHeight) == TruncDiv(canvasHeightOf(imgHeight), Units(1))

\* fontSize = Math.max(14, Math.min(imgWidth, imgHeight) / 50)
fontSizeOf(imgWidth, imgHeight) ==
    Max(Units(14), Units(Min(imgWidth, imgHeight)) \div 50)

\* imgY = (canvasHeight - imgHeight) * 0.15
imgYOf(imgHeight) == ((canvasHeightOf(imgHeight) - Units(imgHeight)) * 15) \div 100

\* watermarkTop = imgY + imgHeight + fontSize * 1.5
watermarkTopOf(imgWidth, imgHeight) ==
    imgYOf(imgHeight) + Units(imgHeight) + (fontSizeOf(imgWidth, imgHeight) * 3) \div 2

\* websiteTop = watermarkTop + fontSize * 2
websiteTopOf(imgWidth, imgHeight) ==
    watermarkTopOf(imgWidth, imgHeight) + fontSizeOf(imgWidth, imgHeight) * 2

\* The y of wrapped line number index (from 0):
\* watermarkTop + index * fontSize * 1.2
lineTopOf(imgWidth, imgHeight, index) ==
    watermarkTopOf(imgWidth, imgHeight)
        + (index * fontSizeOf(imgWidth, imgHeight) * 6) \div 5

\* wrapText(watermarkText, canvasWidth * 0.9, fontSize)
wrappedLinesOf(t, imgWidth, imgHeight) ==
    wrapText(t, (canvasWidthOf(imgWidth) * 9) \div 10, fontSizeOf(imgWidth, imgHeight))

(***************************************************************************)
(* Inputs of the pipeline.                                                 *)
(***************************************************************************)
ImgDims ==
    (1 .. MaxSmallDim) \cup {100}
        \cup ((MAX_WIDTH - NearMax) .. (MAX_WIDTH + NearMax))
        \cup {2 * MAX_WIDTH + 1}

Images == [width : ImgDims, height : ImgDims]

TextsUpTo(chars, n) == UNION {[1 .. k -> chars] : k \in 0 .. n}

Texts == TextsUpTo({"a", " "}, MaxTextLen)

\* What a canvas holds once a whole pipeline ran on it, in paint order.
FullPaint == <<"white", "image", "text", "caption", "overlay", "mask">>

\* The drawing state of the canvas's 2D context that processImage writes:
\* fillStyle, font and textAlign.  getContext("2d") gives the same context
\* at every call on one canvas, so the state outlives an invocation.
\* A new context, and one whose canvas was just given a width or a height,
\* has fillStyle black, font 10px sans-serif, textAlign start.
DefaultState ==
    [fillStyle |-> "black",
     font |-> [bold |-> FALSE, size |-> Units(10), family |-> "sans-serif"],
     textAlign |-> "start"]

\* ctx.font = `bold ${fontSize}px Arial` and ctx.font = `${fontSize}px Arial`
ArialFont(isBold, fontSize) == [bold |-> isBold, size |-> fontSize, family |-> "Arial"]

NoCanvas ==
    [present |-> FALSE, width |-> 0, height |-> 0, painted |-> <<>>,
     state |-> DefaultState]

\* The output canvas handed to processImage: none, a new one, or the page's
\* canvas as an earlier invocation (on a 100 x 100 image) left it.
OutputCanvases ==
    { NoCanvas,
      [present |-> TRUE, width |-> DefaultCanvasWidth,
       height |-> DefaultCanvasHeight, painted |-> <<>>, state |-> DefaultState],
      [present |-> TRUE, width |-> SurfaceWidthOf(100),
       height |-> SurfaceHeightOf(100), painted |-> FullPaint,
       state |-> [fillStyle |-> "black",
                  font |-> ArialFont(FALSE, fontSizeOf(100, 100)),
                  textAlign |-> "start"]] }

NoCtxs == [out |-> "unasked", resize |-> "unasked",
           pattern |-> "unasked", mask |-> "unasked"]
NoResized == [width |-> 0, height |-> 0, drawn |-> FALSE]
NoLayout == [fontSize |-> 0, lines |-> <<>>, lineTops |-> <<>>, websiteTop |-> 0]

\* The helper calls at rest.
NoWrap == [at |-> "idle"]
NoGray == [at |-> "idle"]
NoWarp == [at |-> "idle"]
NoTile == [at |-> "idle"]
NoPage == [at |-> "idle"]

PipelineAtRest ==
    /\ pc = "idle"
    /\ img = [width |-> 0, height |-> 0]
    /\ text = <<>>
    /\ canvas = NoCanvas
    /\ ctxs = NoCtxs
    /\ resized = NoResized
    /\ layout = NoLayout
    /\ log = <<>>
    /\ previews = <<>>
    /\ given = NoCanvas

\* getContext("2d") yields a context or null.
CtxOutcome(ok) == IF ok THEN "ok" ELSE "null"

Init ==
    /\ pc = "idle"
    /\ img = [width |-> 0, height |-> 0]
    /\ text = <<>>
    /\ canvas \in OutputCanvases
    /\ ctxs = NoCtxs
    /\ resized = NoResized
    /\ layout = NoLayout
    /\ log = <<>>
    /\ previews = <<>>
    /\ given = NoCanvas
    /\ wrap = NoWrap
    /\ gray = NoGray
    /\ warp = NoWarp
    /\ tile = NoTile
    /\ page = NoPage

(***************************************************************************)
(* processImage (watermark.ts 42-98), one action per step of its body.     *)
(* The function has no await: the steps of one invocation run back to      *)
(* back.                                                                   *)
(***************************************************************************)
\* The call: processImage(img, watermarkText, canvas, setPreview).
Invoke ==
    /\ pc = "idle"
    /\ \E i \in Images, t \in Texts :
          /\ img' = i
          /\ text' = t
    /\ given' = canvas
    /\ pc' = "entry"
    /\ UNCHANGED <<canvas, ctxs, resized, layout, log, previews>>
    /\ UNCHANGED <<wrap, gray, warp, tile, page>>

\* if (!canvas) return; const ctx = canvas.getContext("2d"); if (!ctx) return;
Entry ==
    /\ pc = "entry"
    /\ IF ~canvas.present
       THEN /\ pc' = "returned"
            /\ UNCHANGED ctxs
       ELSE \E ok \in BOOLEAN :
               /\ ctxs' = [ctxs EXCEPT !.out = CtxOutcome(ok)]
               /\ pc' = IF ok THEN "resize" ELSE "returned"
    /\ UNCHANGED <<img, text, canvas, resized, layout, log, previews>>
    /\ UNCHANGED <<given, wrap, gray, warp, tile, page>>

\* const resizedCanvas = resizeImage(img);
Resize ==
    /\ pc = "resize"
    /\ \E ok \in BOOLEAN :
          /\ ctxs' = [ctxs EXCEPT !.resize = CtxOutcome(ok)]
          /\ resized' = resizeImage(img.width, img.height, ok)
    /\ log' = Append(log, "resize")
    /\ pc' = "dimensions"
    /\ UNCHANGED <<img, text, canvas, layout, previews>>
    /\ UNCHANGED <<given, wrap, gray, warp, tile, page>>

\* A canvas whose width and height are set keeps what was painted on it and
\* the drawing state of its context.
KeepingBitmap(c, w, h) == [c EXCEPT !.width = w, !.height = h]

\* Setting a canvas's width or height, even to the value it has, clears the
\* bitmap and resets the context to its default state.
SetCanvasSize(c, w, h) ==
    [c EXCEPT !.width = w, !.height = h, !.painted = <<>>, !.state = DefaultState]

\* canvas.width = canvasWidth; canvas.height = canvasHeight;
SetDimensions ==
    /\ pc = "dimensions"
    /\ canvas' = SetCanvasSize(canvas, SurfaceWidthOf(resized.width),
                               SurfaceHeightOf(resized.height))
    /\ log' = Append(log, "dimensions")
    /\ pc' = "fill"
    /\ UNCHANGED <<img, text, ctxs, resized, layout, previews>>
    /\ UNCHANGED <<given, wrap, gray, warp, tile, page>>

\* ctx.fillStyle = "white"; ctx.fillRect(0, 0, canvasWidth, canvasHeight);
WhiteFill ==
    /\ pc = "fill"
    /\ canvas' = [canvas EXCEPT !.state.fillStyle = "white",
                                !.painted = Append(@, "white")]
    /\ log' = Append(log, "fill")
    /\ pc' = "place"
    /\ UNCHANGED <<img, text, ctxs, resized, layout, previews>>
    /\ UNCHANGED <<given, wrap, gray, warp, tile, page>>

\* ctx.drawImage(resizedCanvas, imgX, imgY, imgWidth, imgHeight);
\* drawImage throws InvalidStateError for a source canvas with a zero side,
\* and the promise processImage returned is rejected.
PlaceImage ==
    /\ pc = "place"
    /\ IF resized.width = 0 \/ resized.height = 0
       THEN /\ pc' = "threw"
            /\ UNCHANGED <<canvas, log>>
       ELSE /\ canvas' = [canvas EXCEPT !.painted =
                              IF resized.drawn THEN Append(@, "image") ELSE @]
            /\ log' = Append(log, "place")
            /\ pc' = "text"
    /\ UNCHANGED <<img, text, ctxs, resized, layout, previews>>
    /\ UNCHANGED <<given, wrap, gray, warp, tile, page>>

\* The font size, watermarkTop and websiteTop, wrapText and the forEach of
\* fillText.
DrawText ==
    /\ pc = "text"
    /\ LET lines == wrappedLinesOf(text, resized.width, resized.height)
       IN  /\ layout' = [fontSize |-> fontSizeOf(resized.width, resized.height),
                         lines |-> lines,
                         lineTops |-> [k \in 1 .. Len(lines) |->
                                          lineTopOf(resized.width, resized.height, k - 1)],
                         websiteTop |-> websiteTopOf(resized.width, resized.height)]
           /\ canvas' = [canvas EXCEPT
                             !.state = [fillStyle |-> "black",
                                        font |-> ArialFont(TRUE, fontSizeOf(resized.width,
                                                                            resized.height)),
                                        textAlign |-> "start"],
                             !.painted = IF lines # <<>> THEN Append(@, "text") ELSE @]
    /\ log' = Append(log, "text")
    /\ pc' = "caption"
    /\ UNCHANGED <<img, text, ctxs, resized, previews>>
    /\ UNCHANGED <<given, wrap, gray, warp, tile, page>>

\* ctx.font = `${fontSize}px Arial`;
\* ctx.fillText("Protect your documents with DocShield.", ..., websiteTop),
\* at the websiteTop computed with watermarkTop.
DrawCaption ==
    /\ pc = "caption"
    /\ canvas' = [canvas EXCEPT !.state.font = ArialFont(FALSE, layout.fontSize),
                                !.painted = Append(@, "caption")]
    /\ log' = Append(log, "caption")
    /\ pc' = "overlay"
    /\ UNCHANGED <<img, text, ctxs, resized, layout, previews>>
    /\ UNCHANGED <<given, wrap, gray, warp, tile, page>>

\* applyWatermark(ctx, canvasWidth, canvasHeight, finalWatermarkText);
\* it returns before drawing anything when the pattern canvas has no context.
Overlay ==
    /\ pc = "overlay"
    /\ \E ok \in BOOLEAN :
          /\ ctxs' = [ctxs EXCEPT !.pattern = CtxOutcome(ok)]
          /\ canvas' = [canvas EXCEPT !.painted = IF ok THEN Append(@, "overlay") ELSE @]
          /\ log' = IF ok THEN Append(log, "overlay") ELSE log
    /\ pc' = "mask"
    /\ UNCHANGED <<img, text, resized, layout, previews>>
    /\ UNCHANGED <<given, wrap, gray, warp, tile, page>>

\* applyGrayscaleMask(ctx, canvasWidth, canvasHeight);
\* it returns before touching a pixel when the mask canvas has no context.
GrayscaleMask ==
    /\ pc = "mask"
    /\ \E ok \in BOOLEAN :
          /\ ctxs' = [ctxs EXCEPT !.mask = CtxOutcome(ok)]
          /\ canvas' = [canvas EXCEPT !.painted = IF ok THEN Append(@, "mask") ELSE @]
          /\ log' = IF ok THEN Append(log, "mask") ELSE log
    /\ pc' = "serialize"
    /\ UNCHANGED <<img, text, resized, layout, previews>>
    /\ UNCHANGED <<given, wrap, gray, warp, tile, page>>

\* setPreview(canvas.toDataURL("image/png"));
Serialize ==
    /\ pc = "serialize"
    /\ previews' = Append(previews, [width |-> canvas.width,
                                     height |-> canvas.height,
                                     painted |-> canvas.painted])
    /\ log' = Append(log, "serialize")
    /\ pc' = "done"
    /\ UNCHANGED <<img, text, canvas, ctxs, resized, layout>>
    /\ UNCHANGED <<given, wrap, gray, warp, tile, page>>

Next ==
    \/ Invoke
    \/ Entry
    \/ Resize
    \/ SetDimensions
    \/ WhiteFill
    \/ PlaceImage
    \/ DrawText
    \/ DrawCaption
    \/ Overlay
    \/ GrayscaleMask
    \/ Serialize

Spec == Init /\ [][Next]_vars

(***************************************************************************)
(* wrapText alone: every text over two letters, the space and the tab, a   *)
(* range of widths, two font sizes.                                        *)
(***************************************************************************)
WrapTexts == TextsUpTo({"a", "b"} \cup WhiteSpace, MaxWrapLen)
WrapMaxWidths == {Units(4 * k) : k \in 0 .. MaxWidthSteps}
WrapFontSizes == {Units(14), Units(20)}

InitWrap ==
    /\ PipelineAtRest
    /\ wrap \in [at : {"called"}, text : WrapTexts, maxWidth : WrapMaxWidths,
                 fontSize : WrapFontSizes, lines : {<<>>}]
    /\ gray = NoGray
    /\ warp = NoWarp
    /\ tile = NoTile
    /\ page = NoPage

WrapCall ==
    /\ wrap.at = "called"
    /\ wrap' = [wrap EXCEPT !.at = "returned",
                            !.lines = wrapText(wrap.text, wrap.maxWidth, wrap.fontSize)]
    /\ UNCHANGED <<pipeline, gray, warp, tile, page>>

NextWrap == WrapCall

SpecWrap == InitWrap /\ [][NextWrap]_vars

(***************************************************************************)
(* applyGrayscaleMask and createScribblePattern (watermark.ts 141-210) on  *)
(* a surface one pixel wide.  A pixel is [r, g, b, a], each 0..255, as     *)
(* getImageData gives it.                                                  *)
(***************************************************************************)
\* Storing the number n / d (n >= 0, d > 0) in a Uint8ClampedArray: the
\* nearest integer, a half going to the even one, at most 255.
Uint8Clamp(n, d) ==
    LET q == n \div d
        r == n % d
        nearest == IF 2 * r < d THEN q
                   ELSE IF 2 * r > d THEN q + 1
                   ELSE IF q % 2 = 0 THEN q ELSE q + 1
    IN  Min(255, nearest)

\* (r + g + b) / 3 in place of the luminosity weights.
grayAverage(r, g, b) == Uint8Clamp(r + g + b, 3)

\* gray = 0.3 * R + 0.59 * G + 0.11 * B, as the byte array keeps it.
grayOf(r, g, b) == Uint8Clamp(30 * r + 59 * g + 11 * b, 100)

\* The body of the for loop of applyGrayscaleMask on one pixel.
maskedPixel(p, m) ==
    IF m.r = 0
    THEN [r |-> grayOf(p.r, p.g, p.b), g |-> grayOf(p.r, p.g, p.b),
          b |-> grayOf(p.r, p.g, p.b), a |-> p.a]
    ELSE p

\* A new canvas is transparent black.
TransparentPixel == [r |-> 0, g |-> 0, b |-> 0, a |-> 0]
\* fillStyle = "black"; fillRect over the whole mask.
BlackPixel == [r |-> 0, g |-> 0, b |-> 0, a |-> 255]

\* The share of a pixel a stroke covers, in 255ths: none, a part (the
\* anti-aliased edge of the stroke), all of it.
Coverages == {0, 128, 255}

\* A stroke that paints its coverage into the red channel alone.
strokeRedOnly(m, c) == [m EXCEPT !.r = m.r + RoundDiv((255 - m.r) * c, 255)]

\* strokeStyle = "white"; stroke(): white composited over the opaque pixel m
\* with coverage c.
strokeOver(m, c) ==
    [r |-> m.r + RoundDiv((255 - m.r) * c, 255),
     g |-> m.g + RoundDiv((255 - m.g) * c, 255),
     b |-> m.b + RoundDiv((255 - m.b) * c, 255),
     a |-> m.a + RoundDiv((255 - m.a) * c, 255)]

\* lineSpacing = Math.max(5, height / 150), in 150ths of a pixel.
lineSpacing150(height) == Max(5 * 150, height)

\* i < numLines, numLines = Math.floor(height / lineSpacing) * 1.2
lineIndexInRange(i, height) ==
    10 * i < 12 * ((150 * height) \div lineSpacing150(height))

\* The colours of the surface given to applyGrayscaleMask.
Palette == { [r |-> 200, g |-> 120, b |-> 40, a |-> 255],
             [r |-> 10, g |-> 250, b |-> 90, a |-> 128] }

GraySizes == {[width |-> 1, height |-> h] : h \in {1, MaskHeight}}

\* The surfaces: one colour everywhere, or two colours in turn.
GraySurfaces(n) == {[k \in 1 .. n |-> two[k % 2]] : two \in [{0, 1} -> Palette]}

InitGray ==
    /\ PipelineAtRest
    /\ wrap = NoWrap
    /\ warp = NoWarp
    /\ tile = NoTile
    /\ page = NoPage
    /\ \E size \in GraySizes :
          \E pixels \in GraySurfaces(size.width * size.height) :
             gray = [at |-> "called", width |-> size.width, height |-> size.height,
                     surface |-> pixels, imageData |-> <<>>, maskCtx |-> "unasked",
                     mask |-> <<>>, i |-> 0]

\* const imageData = ctx.getImageData(0, 0, width, height); the mask canvas,
\* its size and its context; if (!maskCtx) return;
GrayBegin ==
    /\ gray.at = "called"
    /\ \E ok \in BOOLEAN :
          gray' = [gray EXCEPT
                      !.imageData = gray.surface,
                      !.maskCtx = CtxOutcome(ok),
                      !.mask = [k \in DOMAIN gray.surface |-> TransparentPixel],
                      !.at = IF ok THEN "fill" ELSE "returned"]
    /\ UNCHANGED <<pipeline, wrap, warp, tile, page>>

\* createScribblePattern: ctx.fillStyle = "black"; ctx.fillRect(0, 0, width, height);
ScribbleFill ==
    /\ gray.at = "fill"
    /\ gray' = [gray EXCEPT !.mask = [k \in DOMAIN gray.mask |-> BlackPixel],
                            !.i = 0,
                            !.at = "lines"]
    /\ UNCHANGED <<pipeline, wrap, warp, tile, page>>

\* createScribblePattern: one turn of the for loop over the lines: the path
\* of line i and its stroke, with the amplitude, phase and width drawn at
\* random.  Which pixels the stroke covers, and how much of each, is left
\* open.
ScribbleLine ==
    /\ gray.at = "lines"
    /\ lineIndexInRange(gray.i, gray.height)
    /\ \E cover \in [DOMAIN gray.mask -> Coverages] :
          gray' = [gray EXCEPT
                      !.mask = [k \in DOMAIN gray.mask |-> strokeOver(gray.mask[k], cover[k])],
                      !.i = gray.i + 1]
    /\ UNCHANGED <<pipeline, wrap, warp, tile, page>>

\* The end of createScribblePattern; maskData; the for loop over the pixels
\* of imageData.
GrayLoop ==
    /\ gray.at = "lines"
    /\ ~lineIndexInRange(gray.i, gray.height)
    /\ gray' = [gray EXCEPT
                   !.imageData = [k \in DOMAIN gray.imageData |->
                                     maskedPixel(gray.imageData[k], gray.mask[k])],
                   !.at = "looped"]
    /\ UNCHANGED <<pipeline, wrap, warp, tile, page>>

\* ctx.putImageData(imageData, 0, 0);
GrayPut ==
    /\ gray.at = "looped"
    /\ gray' = [gray EXCEPT !.surface = gray.imageData, !.at = "returned"]
    /\ UNCHANGED <<pipeline, wrap, warp, tile, page>>

NextGray ==
    \/ GrayBegin
    \/ ScribbleFill
    \/ ScribbleLine
    \/ GrayLoop
    \/ GrayPut

SpecGray == InitGray /\ [][NextGray]_vars

(***************************************************************************)
(* applyWatermark and warpTextColumns (watermark.ts 263-330).  Lengths are *)
(* in units; angles are in microradians; a sine is in thousandths.         *)
(* Math.random() is k / RandSteps for k in 0 .. RandSteps - 1.             *)
(***************************************************************************)
TwoPiMicro == 6283185

\* 1000 * sin(x / 1000) for x in 0 .. 3142 (milliradians), by Bhaskara's
\* formula 16 x (pi - x) / (5 pi^2 - 4 x (pi - x)), within 2 thousandths.
HalfWaveSin(x) ==
    LET p == x * (3142 - x)
    IN  (16 * p) \div ((49348022 - 4 * p) \div 1000)

\* 1000 * Math.sin(angle), the angle in microradians, angle >= 0.
Sin1000(angle) ==
    LET t == (angle % TwoPiMicro) \div 1000
    IN  IF t <= 3142 THEN HalfWaveSin(t) ELSE -HalfWaveSin(Min(t - 3142, 3142))

\* 70 * fontSize, fontSize = Math.max(8, Math.min(finalWidth, finalHeight) / 70)
overlayFontSize70(finalWidth, finalHeight) ==
    Max(70 * Units(8), Min(finalWidth, finalHeight))

\* extraPadding = Math.round(fontSize * 10), in pixels
extraPaddingOf(finalWidth, finalHeight) ==
    RoundDiv(10 * overlayFontSize70(finalWidth, finalHeight), 70 * Units(1))

\* patternWidth = finalWidth + extraPadding * 2
patternWidthOf(finalWidth, finalHeight) ==
    finalWidth + Units(extraPaddingOf(finalWidth, finalHeight)) * 2

\* patternHeight = finalHeight + extraPadding * 5
patternHeightOf(finalWidth, finalHeight) ==
    finalHeight + Units(extraPaddingOf(finalWidth, finalHeight)) * 5

\* amplitude = Math.max(5, finalHeight / (15 + Math.random() * 5))
amplitudeOf(finalHeight, k) ==
    Max(Units(5), (finalHeight * RandSteps) \div (15 * RandSteps + 5 * k))

\* frequency = Math.max(0.004, (8 + Math.random() * 4) / finalWidth),
\* in microradians per pixel
frequencyOf(finalWidth, k) ==
    Max(4000,
        ((((8 * RandSteps + 4 * k) * 100000) \div RandSteps) * 1000)
            \div (finalWidth \div 100))

\* phase = Math.random() * 2 * Math.PI
phaseOf(k) == (k * TwoPiMicro) \div RandSteps

\* baseShift = -finalHeight * 0.1
baseShiftOf(finalHeight) == -(finalHeight \div 10)

\* The offset with its fraction dropped instead of rounded.
offsetFloored(x, amplitude, frequency, phase, baseShift) ==
    (baseShift + ((amplitude \div 10) * Sin1000(frequency * x + phase)) \div 100)
        \div Units(1)

\* offset = Math.round(baseShift + amplitude * Math.sin(frequency * x + phase)),
\* in pixels
offsetOf(x, amplitude, frequency, phase, baseShift) ==
    RoundDiv(baseShift + ((amplitude \div 10) * Sin1000(frequency * x + phase)) \div 100,
             Units(1))

\* The resized images whose output surface applyWatermark is run on.
WarpImages ==
    { [width |-> 1, height |-> 1], [width |-> 3, height |-> 2],
      [width |-> 100, height |-> 100], [width |-> 100, height |-> MAX_HEIGHT] }

NoWave == [amplitude |-> 0, frequency |-> 0, phase |-> 0, baseShift |-> 0]

\* The arguments of a drawImage call but the destination y: source x, y,
\* width and height, destination x, width and height.  None was made yet.
NoSlice == [sx |-> -1, sy |-> 0, sw |-> 0, sh |-> 0, dx |-> -1, dw |-> 0, dh |-> 0]

InitWarp ==
    /\ PipelineAtRest
    /\ wrap = NoWrap
    /\ gray = NoGray
    /\ tile = NoTile
    /\ page = NoPage
    /\ \E i \in WarpImages :
          warp = [at |-> "called",
                  finalWidth |-> canvasWidthOf(i.width),
                  finalHeight |-> canvasHeightOf(i.height),
                  patternCtx |-> "unasked",
                  patternWidth |-> 0, patternHeight |-> 0,
                  wave |-> NoWave,
                  x |-> 0, column |-> -1, offset |-> 0,
                  slice |-> NoSlice, copies |-> 0]

\* applyWatermark down to the call of warpTextColumns: the pattern canvas,
\* its context (if (!patternCtx) return), the tiled text, the wave drawn at
\* random.
WarpBegin ==
    /\ warp.at = "called"
    /\ \/ warp' = [warp EXCEPT !.patternCtx = "null", !.at = "returned"]
       \/ \E ka, kf, kp \in 0 .. RandSteps - 1 :
             warp' = [warp EXCEPT
                         !.patternCtx = "ok",
                         !.patternWidth = patternWidthOf(warp.finalWidth, warp.finalHeight),
                         !.patternHeight = patternHeightOf(warp.finalWidth, warp.finalHeight),
                         !.wave = [amplitude |-> amplitudeOf(warp.finalHeight, ka),
                                   frequency |-> frequencyOf(warp.finalWidth, kf),
                                   phase |-> phaseOf(kp),
                                   baseShift |-> baseShiftOf(warp.finalHeight)],
                         !.x = 0,
                         !.at = "columns"]
    /\ UNCHANGED <<pipeline, wrap, gray, tile, page>>

\* warpTextColumns: one turn of for (let x = 0; x < width; x++): the slice
\* of the pattern at x, patternHeight high, is drawn at (x, offset) by
\* drawImage(patternCanvas, x, 0, 1, height, x, offset, 1, height).
WarpColumn ==
    /\ warp.at = "columns"
    /\ Units(warp.x) < warp.patternWidth
    /\ warp' = [warp EXCEPT
                   !.column = warp.x,
                   !.offset = offsetOf(warp.x, warp.wave.amplitude, warp.wave.frequency,
                                       warp.wave.phase, warp.wave.baseShift),
                   !.slice = [sx |-> warp.x, sy |-> 0, sw |-> Units(1),
                              sh |-> warp.patternHeight,
                              dx |-> warp.x, dw |-> Units(1), dh |-> warp.patternHeight],
                   !.copies = warp.copies + 1,
                   !.x = warp.x + 1]
    /\ UNCHANGED <<pipeline, wrap, gray, tile, page>>

\* The loop ends; warpTextColumns and applyWatermark return.
WarpEnd ==
    /\ warp.at = "columns"
    /\ ~(Units(warp.x) < warp.patternWidth)
    /\ warp' = [warp EXCEPT !.at = "returned"]
    /\ UNCHANGED <<pipeline, wrap, gray, tile, page>>

NextWarp ==
    \/ WarpBegin
    \/ WarpColumn
    \/ WarpEnd

SpecWarp == InitWarp /\ [][NextWarp]_vars

(***************************************************************************)
(* drawHorizontalTextPattern (watermark.ts 224-246).  Lengths in units.    *)
(***************************************************************************)
\* Math.ceil(n / d) for d > 0
CeilDiv(n, d) == -((-n) \div d)

\* lineHeight = Math.ceil(fontSize)
lineHeightOf(fontSize) == Units(CeilDiv(fontSize, Units(1)))

\* A horizontal step of the measured text width alone, without the gap.
tileStepNoGap(textWidth, fontSize) == textWidth

\* x += textWidth + fontSize * 0.3
tileStep(textWidth, fontSize) == textWidth + (fontSize * 3) \div 10

\* The areas, font sizes and measured text widths the function is given:
\* whole and fractional numbers of pixels, the least font size 8 of
\* applyWatermark, a text of no width.
TileWidths == {Units(1), Units(MaxTileSide) \div 2 + Units(1) \div 4, Units(MaxTileSide)}
TileHeights == {Units(1), Units(8), Units(MaxTileSide) \div 2 + Units(1) \div 2}
TileFontSizes == {Units(8), Units(8) + Units(1) \div 2, Units(12)}
TileTextWidths == {0, Units(7) + Units(1) \div 5, Units(MaxTileSide)}

InitTile ==
    /\ PipelineAtRest
    /\ wrap = NoWrap
    /\ gray = NoGray
    /\ warp = NoWarp
    /\ page = NoPage
    /\ tile \in [at : {"called"}, width : TileWidths, height : TileHeights,
                 fontSize : TileFontSizes, textWidth : {0}, lineHeight : {0},
                 x : {0}, y : {0}, tiles : {{}}]

\* save(); fillStyle, font, textBaseline; textWidth = measureText(text).width;
\* lineHeight = Math.ceil(fontSize); let y = 0
TileBegin ==
    /\ tile.at = "called"
    /\ \E measured \in TileTextWidths :
          tile' = [tile EXCEPT !.textWidth = measured,
                               !.lineHeight = lineHeightOf(tile.fontSize),
                               !.y = 0,
                               !.at = "rows"]
    /\ UNCHANGED <<pipeline, wrap, gray, warp, page>>

\* y < height: the body of the for loop begins, let x = 0
TileRow ==
    /\ tile.at = "rows"
    /\ tile.y < tile.height
    /\ tile' = [tile EXCEPT !.x = 0, !.at = "tiles"]
    /\ UNCHANGED <<pipeline, wrap, gray, warp, page>>

\* x < width: fillText(text, x, y); x += textWidth + fontSize * 0.3
TileDraw ==
    /\ tile.at = "tiles"
    /\ tile.x < tile.width
    /\ tile' = [tile EXCEPT !.tiles = @ \cup {<<tile.x, tile.y>>},
                            !.x = tile.x + tileStep(tile.textWidth, tile.fontSize)]
    /\ UNCHANGED <<pipeline, wrap, gray, warp, page>>

\* the while loop ends; y += lineHeight
TileRowEnd ==
    /\ tile.at = "tiles"
    /\ ~(tile.x < tile.width)
    /\ tile' = [tile EXCEPT !.y = tile.y + tile.lineHeight, !.at = "rows"]
    /\ UNCHANGED <<pipeline, wrap, gray, warp, page>>

\* the for loop ends; restore()
TileEnd ==
    /\ tile.at = "rows"
    /\ ~(tile.y < tile.height)
    /\ tile' = [tile EXCEPT !.at = "returned"]
    /\ UNCHANGED <<pipeline, wrap, gray, warp, page>>

NextTile ==
    \/ TileBegin
    \/ TileRow
    \/ TileDraw
    \/ TileRowEnd
    \/ TileEnd

\* The function is one synchronous call: once entered, its next statement
\* is executed.
SpecTile == InitTile /\ [][NextTile]_vars /\ WF_vars(NextTile)

(***************************************************************************)
(* The upload page (part_003: Home, handleImageUpload).  The page's        *)
(* callbacks are tasks of one event loop: a task runs alone until it ends  *)
(* or yields.  processImage is taken in four steps inside the img.onload   *)
(* task that calls it: its entry tests, the first write to the canvas      *)
(* (its dimensions), the drawing, and setPreview(canvas.toDataURL()).      *)
(* The canvas is the single <canvas ref={canvasRef}> of the page; what is  *)
(* on it is told by the upload that put it there.                          *)
(***************************************************************************)
Uploads == 1 .. MaxUploads

\* "Protected by DocShield"
DefaultText ==
    <<"P", "r", "o", "t", "e", "c", "t", "e", "d", " ", "b", "y", " ",
      "D", "o", "c", "S", "h", "i", "e", "l", "d">>

\* What the user types in the text field: nothing, whitespace alone, a word
\* between spaces, two words.
PageTexts ==
    { <<>>, <<" ", " ">>, <<" ", "a", " ">>, <<"a", " ", "a">> }

\* The text handed on with the entered text taken as it is, untrimmed.
effectiveTextUntrimmed(entered) == IF entered # <<>> THEN entered ELSE DefaultText

\* const effectiveText = watermarkText.trim() || "Protected by DocShield";
\* the empty string is the one falsy string.
effectiveText(entered) == IF Trim(entered) # <<>> THEN Trim(entered) ELSE DefaultText

\* A step of processImage that hands the event loop to other tasks before
\* the next one.
YieldsAfterDimensions(step) == step = "sizing"

\* processImage has no await (watermark.ts 42-98): none of its steps yields.
Yields(step) == FALSE

\* An upload: where it is, the text field's value when it started, the
\* effectiveText of its closure, the text processImage was called with, and
\* how the call went.
NoUpload == [at |-> "none", entered |-> <<>>, text |-> <<>>, passed |-> <<>>,
             result |-> "none"]
NoPreview == [by |-> 0, dimsOf |-> 0, layers |-> <<>>]
BlankPageCanvas == [dimsOf |-> 0, layers |-> <<>>]

\* The steps of processImage, and the end of the img.onload task.
ProcSteps == {"entry", "sizing", "drawing", "serializing"}
TaskSteps == ProcSteps \cup {"unloading"}

InitPage ==
    /\ PipelineAtRest
    /\ wrap = NoWrap
    /\ gray = NoGray
    /\ warp = NoWarp
    /\ tile = NoTile
    /\ page = [at |-> "mounted",
               watermarkText |-> <<>>,
               loading |-> FALSE,
               preview |-> NoPreview,
               mounted |-> TRUE,
               canvas |-> BlankPageCanvas,
               running |-> 0,
               uploads |-> [u \in Uploads |-> NoUpload]]

\* No task is running: the event loop can start one.
LoopFree == page.running = 0

\* The form (text field, file input, drop zone) is rendered: {!preview && ..}
FormShown == page.mounted /\ page.preview = NoPreview

\* Upload u's task can take its next step: it is the running task, or it
\* yielded and no task is running.
Runnable(u) ==
    /\ page.uploads[u].at \in TaskSteps
    /\ page.running = u \/ page.running = 0

\* setLoading, setPreview, setWatermarkText: the state of a component that
\* was unmounted is not updated any more.
SetState(field, value) == IF page.mounted THEN value ELSE page[field]

\* onChange={(e) => setWatermarkText(e.target.value)}
TypeText ==
    /\ LoopFree /\ FormShown
    /\ \E t \in PageTexts :
          /\ t # page.watermarkText
          /\ page' = [page EXCEPT !.watermarkText = t]
    /\ UNCHANGED <<pipeline, wrap, gray, warp, tile>>

\* handleImageUpload(file), from handleFileSelect or handleDrop:
\* if (!file) return; effectiveText; setLoading(true); reader.onload = ..;
\* reader.readAsDataURL(file).  The uploads are numbered as they start.
StartUpload(u) ==
    /\ LoopFree /\ FormShown
    /\ page.uploads[u].at = "none"
    /\ \A v \in Uploads : v < u => page.uploads[v].at # "none"
    /\ \E file \in {"null", "file"} :
          IF file = "null"
          THEN UNCHANGED page
          ELSE page' = [page EXCEPT
                           !.loading = TRUE,
                           !.uploads[u] = [NoUpload EXCEPT
                                              !.at = "reading",
                                              !.entered = page.watermarkText,
                                              !.text = effectiveText(page.watermarkText)]]
    /\ UNCHANGED <<pipeline, wrap, gray, warp, tile>>

\* reader.onload: const img = new window.Image(); img.src = ..; img.onload = ..
ReadDone(u) ==
    /\ LoopFree
    /\ page.uploads[u].at = "reading"
    /\ page' = [page EXCEPT !.uploads[u].at = "decoding"]
    /\ UNCHANGED <<pipeline, wrap, gray, warp, tile>>

\* The file cannot be read, or what was read is no image: the reader's or
\* the image's error event, for which the page sets no handler.
ReadOrDecodeFails(u) ==
    /\ LoopFree
    /\ page.uploads[u].at \in {"reading", "decoding"}
    /\ page' = [page EXCEPT !.uploads[u].at = "lost"]
    /\ UNCHANGED <<pipeline, wrap, gray, warp, tile>>

\* img.onload begins: if (canvasRef.current) processImage(img, effectiveText,
\* canvasRef.current, setPreview)
DecodeDone(u) ==
    /\ LoopFree
    /\ page.uploads[u].at = "decoding"
    /\ page' = [page EXCEPT
                   !.running = u,
                   !.uploads[u].at = IF page.mounted THEN "entry" ELSE "unloading",
                   !.uploads[u].passed = IF page.mounted THEN page.uploads[u].text
                                                         ELSE <<>>,
                   !.uploads[u].result = IF page.mounted THEN "called" ELSE "skipped"]
    /\ UNCHANGED <<pipeline, wrap, gray, warp, tile>>

\* processImage 48-50: the canvas's context, or return.
ProcEntry(u) ==
    /\ Runnable(u)
    /\ page.uploads[u].at = "entry"
    /\ \E ok \in BOOLEAN :
          page' = [page EXCEPT
                      !.running = IF ok /\ Yields("entry") THEN 0 ELSE u,
                      !.uploads[u].at = IF ok THEN "sizing" ELSE "unloading",
                      !.uploads[u].result = IF ok THEN @ ELSE "returned"]
    /\ UNCHANGED <<pipeline, wrap, gray, warp, tile>>

\* processImage 53-61: resizeImage, then canvas.width and canvas.height are
\* set: the first write to the page's canvas, which clears it.
ProcSetDimensions(u) ==
    /\ Runnable(u)
    /\ page.uploads[u].at = "sizing"
    /\ page' = [page EXCEPT
                   !.running = IF Yields("sizing") THEN 0 ELSE u,
                   !.canvas = [dimsOf |-> u, layers |-> <<>>],
                   !.uploads[u].at = "drawing"]
    /\ UNCHANGED <<pipeline, wrap, gray, warp, tile>>

\* processImage 64-94: the white fill, the image, the text, the caption, the
\* overlay and the mask; drawImage throws on a resized image with a zero
\* side, which rejects the promise processImage returned and no more.
ProcDraw(u) ==
    /\ Runnable(u)
    /\ page.uploads[u].at = "drawing"
    /\ \E throws \in BOOLEAN :
          page' = [page EXCEPT
                      !.running = IF ~throws /\ Yields("drawing") THEN 0 ELSE u,
                      !.canvas.layers = Append(@, u),
                      !.uploads[u].at = IF throws THEN "unloading" ELSE "serializing",
                      !.uploads[u].result = IF throws THEN "threw" ELSE @]
    /\ UNCHANGED <<pipeline, wrap, gray, warp, tile>>

\* processImage 97: setPreview(canvas.toDataURL("image/png"))
ProcPreview(u) ==
    /\ Runnable(u)
    /\ page.uploads[u].at = "serializing"
    /\ page' = [page EXCEPT
                   !.running = u,
                   !.preview = SetState("preview",
                                        [by |-> u, dimsOf |-> page.canvas.dimsOf,
                                         layers |-> page.canvas.layers]),
                   !.uploads[u].at = "unloading",
                   !.uploads[u].result = "previewed"]
    /\ UNCHANGED <<pipeline, wrap, gray, warp, tile>>

\* img.onload ends: setLoading(false)
HandlerEnd(u) ==
    /\ Runnable(u)
    /\ page.uploads[u].at = "unloading"
    /\ page' = [page EXCEPT
                   !.running = 0,
                   !.loading = SetState("loading", FALSE),
                   !.uploads[u].at = "finished"]
    /\ UNCHANGED <<pipeline, wrap, gray, warp, tile>>

\* "Protect another document": setPreview(null); setWatermarkText("")
ResetPage ==
    /\ LoopFree
    /\ page.mounted /\ page.preview # NoPreview
    /\ page' = [page EXCEPT !.preview = NoPreview, !.watermarkText = <<>>]
    /\ UNCHANGED <<pipeline, wrap, gray, warp, tile>>

\* The user leaves the page: Home is unmounted and canvasRef.current is null.
Unmount ==
    /\ LoopFree
    /\ page.mounted
    /\ page' = [page EXCEPT !.mounted = FALSE, !.at = "unmounted"]
    /\ UNCHANGED <<pipeline, wrap, gray, warp, tile>>

\* The tasks the event loop runs for the uploads, and the outcome of a read
\* or a decode.
UploadTask(u) ==
    \/ ReadDone(u)
    \/ ReadOrDecodeFails(u)
    \/ DecodeDone(u)
    \/ ProcEntry(u)
    \/ ProcSetDimensions(u)
    \/ ProcDraw(u)
    \/ ProcPreview(u)
    \/ HandlerEnd(u)

NextPage ==
    \/ TypeText
    \/ \E u \in Uploads : StartUpload(u)
    \/ \E u \in Uploads : UploadTask(u)
    \/ ResetPage
    \/ Unmount

\* Every read and every decode ends, well or badly, and the event loop runs
\* the tasks that are ready.
SpecPage ==
    InitPage /\ [][NextPage]_vars /\ \A u \in Uploads : WF_vars(UploadTask(u))

(***************************************************************************)
(* Claims about the pipeline (specification Spec).                         *)
(***************************************************************************)
ResizeReturned == pc \notin {"idle", "entry", "resize", "returned"}
DimensionsSet == ResizeReturned /\ pc # "dimensions"
Ended == pc \in {"returned", "threw", "done"}

\* C1: an image of at most 2500 x 2500 comes back from resizeImage on a
\* surface of exactly the image's width and height.
C1_SmallImagePassesThrough ==
    (ResizeReturned /\ img.width <= MAX_WIDTH /\ img.height <= MAX_HEIGHT)
        => (resized.width = img.width /\ resized.height = img.height)

\* C1, with the temporary canvas's context obtained (not the claim: the
\* claim makes no such exception).
ResizeKeepsSmallImageGivenContext ==
    (ResizeReturned /\ ctxs.resize = "ok"
        /\ img.width <= MAX_WIDTH /\ img.height <= MAX_HEIGHT)
        => (resized.width = img.width /\ resized.height = img.height)

\* |a|
Abs(a) == IF a < 0 THEN -a ELSE a

\* The resized sides are the image's sides times min(2500/w, 2500/h), each
\* to the nearest integer; both are at most 2500; the aspect ratio is kept
\* up to half a pixel of rounding on each side.
ScaledByOneFactor ==
    LET w == img.width
        h == img.height
        widthBinds == MAX_WIDTH * h <= MAX_HEIGHT * w
        num == IF widthBinds THEN MAX_WIDTH ELSE MAX_HEIGHT
        den == IF widthBinds THEN w ELSE h
    IN  /\ 2 * Abs(resized.width * den - w * num) <= den
        /\ 2 * Abs(resized.height * den - h * num) <= den
        /\ resized.width <= MAX_WIDTH
        /\ resized.height <= MAX_HEIGHT
        /\ 2 * Abs(resized.width * h - resized.height * w) <= w + h

\* C2: an image wider or higher than 2500 is scaled by the one factor
\* min(2500/width, 2500/height), each side rounded to the nearest integer.
C2_LargeImageScaledByOneFactor ==
    (ResizeReturned /\ (img.width > MAX_WIDTH \/ img.height > MAX_HEIGHT))
        => ScaledByOneFactor

\* C2, with the temporary canvas's context obtained (not the claim).
ResizeScalesLargeImageGivenContext ==
    (ResizeReturned /\ ctxs.resize = "ok"
        /\ (img.width > MAX_WIDTH \/ img.height > MAX_HEIGHT))
        => ScaledByOneFactor

\* C3 as stated: the output surface is round(resizedW * 1.1) wide and
\* round(resizedH * 1.25) high.  Stated of the runs in which resizeImage
\* obtained its context, so that a violation owes nothing to the blank
\* 300 x 150 canvas of the other runs.
C3_OutputRounded ==
    (DimensionsSet /\ ctxs.resize = "ok")
        => /\ canvas.width = RoundDiv(11 * resized.width, 10)
           /\ canvas.height = RoundDiv(5 * resized.height, 4)

\* C3 as amended: the output surface is floor(resizedW * 1.1) wide and
\* floor(resizedH * 1.25) high, the fractions being dropped and not rounded;
\* a 100 x 100 input yields a 110 x 125 output.
C3_OutputTruncated ==
    DimensionsSet
        => /\ 10 * canvas.width <= 11 * resized.width
           /\ 11 * resized.width < 10 * (canvas.width + 1)
           /\ 4 * canvas.height <= 5 * resized.height
           /\ 5 * resized.height < 4 * (canvas.height + 1)
           /\ (img = [width |-> 100, height |-> 100] /\ ctxs.resize = "ok")
                 => (canvas.width = 110 /\ canvas.height = 125)

\* A finished run on a 2499 x 2 image: 2748.9 x 2.5 is kept as 2748 x 2.
C3_Witness ==
    /\ pc = "done"
    /\ resized.width = 2499 /\ resized.height = 2
    /\ canvas.width = 2748 /\ canvas.height = 2

StepOrder ==
    <<"resize", "dimensions", "fill", "place", "text", "caption",
      "overlay", "mask", "serialize">>

IsPrefix(s, t) == Len(s) <= Len(t) /\ s = SubSeq(t, 1, Len(s))

\* C7: an invocation with a valid output context runs resize, dimensions,
\* white fill, placement, text, caption, overlay, grayscale mask and
\* serialization in this order, and calls setPreview exactly once, only
\* after the grayscale mask was applied to the output surface.
C7_StepsInOrderThenOnePreview ==
    /\ IsPrefix(log, StepOrder)
    /\ (Ended /\ ctxs.out = "ok") => (log = StepOrder /\ Len(previews) = 1)
    /\ \A k \in DOMAIN previews :
          \E j \in DOMAIN previews[k].painted : previews[k].painted[j] = "mask"

\* C8: with the output canvas, its context, or the context of the resize,
\* pattern or mask canvas missing, processImage never calls setPreview.
C8_MissingSurfaceNoPreview ==
    ( \/ (pc # "idle" /\ ~canvas.present)
      \/ \E f \in DOMAIN ctxs : ctxs[f] = "null" )
        => previews = <<>>

\* C10: the caption's y is strictly greater than the y of every wrapped
\* watermark line, however many lines there are.
C10_CaptionBelowEveryLine ==
    pc \in {"overlay", "mask", "serialize", "done"}
        => \A k \in DOMAIN layout.lineTops : layout.websiteTop > layout.lineTops[k]

\* The step named s was executed by the invocation.
Did(s) == \E k \in DOMAIN log : log[k] = s

\* What the output canvas holds, worked out from the invocation's image, its
\* text and the outcomes of its getContext calls, and from nothing else.
ExpectedResized == resizeImage(img.width, img.height, ctxs.resize = "ok")

ExpectedPaint ==
    LET r == ExpectedResized
    IN  (IF Did("fill") THEN <<"white">> ELSE <<>>)
        \o (IF Did("place") /\ r.drawn THEN <<"image">> ELSE <<>>)
        \o (IF Did("text") /\ wrappedLinesOf(text, r.width, r.height) # <<>>
            THEN <<"text">> ELSE <<>>)
        \o (IF Did("caption") THEN <<"caption">> ELSE <<>>)
        \o (IF ctxs.pattern = "ok" THEN <<"overlay">> ELSE <<>>)
        \o (IF ctxs.mask = "ok" THEN <<"mask">> ELSE <<>>)

ExpectedState ==
    LET r == ExpectedResized
        size == fontSizeOf(r.width, r.height)
    IN  IF Did("caption")
        THEN [fillStyle |-> "black", font |-> ArialFont(FALSE, size), textAlign |-> "start"]
        ELSE IF Did("text")
        THEN [fillStyle |-> "black", font |-> ArialFont(TRUE, size), textAlign |-> "start"]
        ELSE IF Did("fill")
        THEN [DefaultState EXCEPT !.fillStyle = "white"]
        ELSE DefaultState

ExpectedCanvas ==
    [present |-> TRUE,
     width |-> SurfaceWidthOf(ExpectedResized.width),
     height |-> SurfaceHeightOf(ExpectedResized.height),
     painted |-> ExpectedPaint,
     state |-> ExpectedState]

\* C12: from the moment processImage has set the output canvas's dimensions,
\* the canvas (dimensions, everything painted, drawing state of its context)
\* and the URL given to setPreview are a function of the image, the text and
\* the outcomes drawn during the invocation; what the canvas held and how
\* large it was before the call plays no part, so two invocations with the
\* same inputs on a new and on a reused canvas end with identical surfaces.
C12_OutputIndependentOfPriorCanvas ==
    /\ DimensionsSet => canvas = ExpectedCanvas
    /\ \A k \in DOMAIN previews :
          previews[k] = [width |-> ExpectedCanvas.width,
                         height |-> ExpectedCanvas.height,
                         painted |-> ExpectedCanvas.painted]

\* A finished run on the canvas an earlier invocation left painted, at other
\* dimensions and with another font in its context.
C12_Witness ==
    /\ pc = "done"
    /\ given.painted = FullPaint
    /\ given.width # canvas.width
    /\ given.state # canvas.state
    /\ canvas.painted = FullPaint
    /\ Len(previews) = 1

\* C15: for every resized image and every watermark text, every wrapped
\* line's y and the caption's y are less than the height of the output
\* surface.  Stated of the runs in which resizeImage obtained its context.
C15_TextInsideSurface ==
    (pc \in {"overlay", "mask", "serialize", "done"} /\ ctxs.resize = "ok")
        => /\ \A k \in DOMAIN layout.lineTops : layout.lineTops[k] < Units(canvas.height)
           /\ layout.websiteTop < Units(canvas.height)

\* C15 for the caption alone on images at least 231 pixels high whose width
\* is at least their height: there the caption is inside.  (Not the claim.)
CaptionInsideTallEnoughSurface ==
    (pc \in {"overlay", "mask", "serialize", "done"} /\ ctxs.resize = "ok"
        /\ resized.height >= 231 /\ resized.width >= resized.height)
        => layout.websiteTop < Units(canvas.height)

(***************************************************************************)
(* Claims about wrapText (specification SpecWrap).                         *)
(***************************************************************************)
\* The words of a list of lines, in order.
RECURSIVE WordsOfLines(_)
WordsOfLines(lines) ==
    IF lines = <<>> THEN <<>>
    ELSE SplitWhitespace(Head(lines)) \o WordsOfLines(Tail(lines))

\* n characters at 0.55 * fontSize each exceed maxWidth.
TooWide(n, fontSize, maxWidth) == n * 11 * fontSize > 20 * maxWidth

RECURSIVE JoinLines(_)
JoinLines(lines) ==
    IF lines = <<>> THEN <<>>
    ELSE IF Len(lines) = 1 THEN Head(lines)
    ELSE Head(lines) \o <<" ">> \o JoinLines(Tail(lines))

\* The text s without its leading and trailing whitespace, every run of
\* whitespace inside replaced by one space.  afterSpace: the last character
\* read was whitespace; out: the result so far.
RECURSIVE CollapseFrom(_, _, _)
CollapseFrom(s, afterSpace, out) ==
    IF s = <<>> THEN out
    ELSE IF Head(s) \in WhiteSpace THEN CollapseFrom(Tail(s), TRUE, out)
    ELSE CollapseFrom(Tail(s), FALSE,
                      IF afterSpace /\ out # <<>> THEN out \o <<" ", Head(s)>>
                                                  ELSE Append(out, Head(s)))

Collapsed(s) == CollapseFrom(s, FALSE, <<>>)

AllWhitespace(s) == \A k \in DOMAIN s : s[k] \in WhiteSpace

\* C17: the lines wrapText returns, joined with single spaces, are the text
\* trimmed with every run of whitespace collapsed to one space; no line is
\* empty; an empty or whitespace-only text gives no line at all.
C17_WrapKeepsEveryWord ==
    wrap.at = "returned"
        => /\ JoinLines(wrap.lines) = Collapsed(wrap.text)
           /\ \A k \in DOMAIN wrap.lines : wrap.lines[k] # <<>>
           /\ AllWhitespace(wrap.text) => wrap.lines = <<>>

\* A text that starts with whitespace and has a run of two whitespace
\* characters, a tab among them, wrapped on two lines.
C17_Witness ==
    /\ wrap.at = "returned"
    /\ Len(wrap.lines) = 2
    /\ wrap.text[1] \in WhiteSpace
    /\ \E k \in 2 .. Len(wrap.text) - 1 :
          /\ wrap.text[k] \in WhiteSpace
          /\ wrap.text[k + 1] = "\t"
    /\ Len(JoinLines(wrap.lines)) < Len(wrap.text) - 1

\* A whitespace-only text of several characters gave no line.
WhitespaceOnlyWrapped ==
    /\ wrap.at = "returned"
    /\ Len(wrap.text) >= 2
    /\ AllWhitespace(wrap.text)
    /\ wrap.lines = <<>>

(***************************************************************************)
(* Claims about the grayscale mask (specification SpecGray).               *)
(***************************************************************************)
\* The value v is 0.3 * R + 0.59 * G + 0.11 * B of pixel p, to the nearest
\* integer.
IsLuminosityOf(v, p) ==
    /\ 100 * v - (30 * p.r + 59 * p.g + 11 * p.b) <= 50
    /\ (30 * p.r + 59 * p.g + 11 * p.b) - 100 * v <= 50

\* C5: after the loop of applyGrayscaleMask, a pixel whose mask pixel has red
\* 0 has R = G = B = the luminosity of the original pixel, a pixel whose
\* mask red is not 0 is unchanged, and alpha is unchanged everywhere; so an
\* all-black mask grays a one-colour image everywhere and an all-white mask
\* changes nothing.  (gray.surface holds the original until putImageData.)
C5_PerPixelLuminosity ==
    gray.at = "looped"
        => \A k \in DOMAIN gray.surface :
              LET orig == gray.surface[k]
                  out == gray.imageData[k]
              IN  /\ out.a = orig.a
                  /\ gray.mask[k].r = 0
                        => (out.r = out.g /\ out.g = out.b /\ IsLuminosityOf(out.r, orig))
                  /\ gray.mask[k].r # 0 => out = orig

\* A five-pixel surface whose mask has a black, a white and a gray pixel:
\* the pixel under the black one was changed.
C5_Witness ==
    /\ gray.at = "looped"
    /\ \E j, k, l \in DOMAIN gray.mask :
          /\ gray.mask[j].r = 0 /\ gray.imageData[j] # gray.surface[j]
          /\ gray.mask[k].r = 255
          /\ gray.mask[l].r \notin {0, 255}

MaskBuilt == gray.at \in {"lines", "looped", "returned"} /\ gray.maskCtx = "ok"

C9_WarpCoversEveryRow ==
    (warp.column >= 0 /\ Units(warp.column) < warp.finalWidth)
        => /\ warp.offset <= 0
           /\ Units(warp.offset) + warp.patternHeight >= warp.finalHeight

\* C9, the upper edge alone.
WarpCoversTop ==
    (warp.column >= 0 /\ Units(warp.column) < warp.finalWidth) => warp.offset <= 0

\* C9, the lower edge alone.
WarpCoversBottom ==
    (warp.column >= 0 /\ Units(warp.column) < warp.finalWidth)
        => Units(warp.offset) + warp.patternHeight >= warp.finalHeight

\* The wave of the invocation is one applyWatermark can sample: amplitude
\* max(5, finalHeight / (15 + 5 r)), frequency max(0.004, (8 + 4 r) /
\* finalWidth), phase 2 pi r, for draws r in [0, 1), and baseShift is
\* -0.1 * finalHeight.
WaveSampled ==
    /\ warp.wave.amplitude >= Units(5)
    /\ 20 * warp.wave.amplitude >= warp.finalHeight - 20
    /\ 15 * warp.wave.amplitude <= Max(15 * Units(5), warp.finalHeight)
    /\ warp.wave.frequency >= 4000
    /\ warp.wave.phase >= 0 /\ warp.wave.phase < TwoPiMicro
    /\ 10 * warp.wave.baseShift <= -warp.finalHeight + 10
    /\ 10 * warp.wave.baseShift >= -warp.finalHeight - 10

\* The offset of column x is baseShift + amplitude * sin(frequency * x +
\* phase) to the nearest integer, a half going up.
OffsetRounded(offset, x) ==
    LET exact == warp.wave.baseShift
                    + ((warp.wave.amplitude \div 10)
                          * Sin1000(warp.wave.frequency * x + warp.wave.phase)) \div 100
    IN  /\ 2 * (Units(offset) - exact) <= Units(1)
        /\ 2 * (exact - Units(offset)) < Units(1)

\* What holds after each turn of the loop of warpTextColumns.
ColumnsCopiedInOrder ==
    (warp.at \in {"columns", "returned"} /\ warp.patternCtx = "ok")
        => /\ warp.copies = warp.x
           /\ warp.column = warp.x - 1
           /\ Units(warp.column) < warp.patternWidth
           /\ WaveSampled
           /\ warp.copies > 0
                 => /\ warp.slice.sx = warp.column /\ warp.slice.dx = warp.column
                    /\ warp.slice.sy = 0
                    /\ warp.slice.sw = Units(1) /\ warp.slice.dw = Units(1)
                    /\ warp.slice.sh = warp.patternHeight
                    /\ warp.slice.dh = warp.patternHeight
                    /\ OffsetRounded(warp.offset, warp.column)
           /\ warp.at = "returned" => warp.patternWidth <= Units(warp.copies)

\* C16: warpTextColumns copies, for x = 0, 1, 2, .. below patternWidth in
\* this order, one column per x, one pixel wide and patternHeight high, from
\* the pattern at x to the target at the same x, at the vertical position
\* round(baseShift + amplitude * sin(frequency * x + phase)); the wave is
\* sampled once by applyWatermark, with baseShift = -0.1 * output height,
\* and does not change from one column to the next.
C16_ColumnsCopiedWithOneWave ==
    /\ []ColumnsCopiedInOrder
    /\ [][warp.at = "columns" =>
             /\ warp'.wave = warp.wave
             /\ warp'.at = "columns" => (warp'.x = warp.x + 1 /\ warp'.copies = warp.copies + 1)
             /\ warp'.at = "returned" => (warp'.x = warp.x /\ warp'.copies = warp.copies)]_vars

\* The loop over the pattern of a 100 x 100 image (110 x 125 output, pattern
\* 270 wide) ended after 270 copies, the last at a rounded offset that is
\* not the floor.
C16_Witness ==
    /\ warp.at = "returned" /\ warp.patternCtx = "ok"
    /\ warp.finalWidth = Units(110)
    /\ warp.copies = 270
    /\ warp.column = 269
    /\ warp.offset # offsetFloored(warp.column, warp.wave.amplitude, warp.wave.frequency,
                                   warp.wave.phase, warp.wave.baseShift)

(***************************************************************************)
(* Claims about the tiled text (specification SpecTile).                   *)
(***************************************************************************)
\* The horizontal step the claim names, textWidth + 0.3 * fontSize, and the
\* vertical one, ceil(fontSize): the least whole number of pixels not below
\* fontSize.
ClaimedStepX == tile.textWidth + (3 * tile.fontSize) \div 10
IsCeilOfFontSize(h) ==
    /\ h % Units(1) = 0
    /\ h >= tile.fontSize
    /\ h - Units(1) < tile.fontSize

\* The tile in whose cell the point (px, py) lies is drawn.
CellDrawn(px, py) ==
    \E t \in tile.tiles :
        /\ t[1] <= px /\ px < t[1] + ClaimedStepX
        /\ t[2] <= py /\ py < t[2] + tile.lineHeight

\* What holds while drawHorizontalTextPattern runs and when it has returned.
TiledFromCornerInSteps ==
    tile.at \in {"rows", "tiles", "returned"}
        => /\ IsCeilOfFontSize(tile.lineHeight)
           /\ tile.tiles # {} => <<0, 0>> \in tile.tiles
           /\ \A t \in tile.tiles :
                 /\ t[1] % ClaimedStepX = 0 /\ t[1] < tile.width
                 /\ t[2] % tile.lineHeight = 0 /\ t[2] < tile.height
                 \* the tiles to its left and above it are drawn as well
                 /\ t[1] > 0 => <<t[1] - ClaimedStepX, t[2]>> \in tile.tiles
                 /\ t[2] > 0 => <<t[1], t[2] - tile.lineHeight>> \in tile.tiles
           /\ tile.at = "returned"
                 => /\ \A px \in {Units(k) : k \in 0 .. MaxTileSide} \cup {tile.width - 1} :
                       \A py \in {Units(k) : k \in 0 .. MaxTileSide} \cup {tile.height - 1} :
                          (px < tile.width /\ py < tile.height) => CellDrawn(px, py)
                    \* a tile that starts inside the area is drawn even if it
                    \* crosses the right or the bottom edge
                    /\ \E t \in tile.tiles :
                          /\ t[1] + ClaimedStepX >= tile.width
                          /\ t[2] + tile.lineHeight >= tile.height

\* C14: for every positive width and height, font size of 8 or more and
\* measured text width of 0 or more, drawHorizontalTextPattern returns; its
\* first tile is at (0, 0), the tiles are textWidth + 0.3 * fontSize apart
\* horizontally and ceil(fontSize) apart vertically, and when it returns
\* every point of the area lies in the cell of a drawn tile, the tiles
\* crossing the right and the bottom edge included.
C14_TilingCoversAndTerminates ==
    /\ []TiledFromCornerInSteps
    /\ <>(tile.at = "returned")

\* A returned call with more than one row and more than one tile per row,
\* whose last tile crosses the right and the bottom edge, on an area of
\* fractional width with a text of no width.
C14_Witness ==
    /\ tile.at = "returned"
    /\ tile.textWidth = 0
    /\ tile.width % Units(1) # 0
    /\ \E t \in tile.tiles :
          /\ t[1] > 0 /\ t[2] > 0
          /\ t[1] + ClaimedStepX > tile.width
          /\ t[2] + tile.lineHeight > tile.height

(***************************************************************************)
(* Claims about the upload page (specification SpecPage).                  *)
(***************************************************************************)
\* processImage was called for upload u.
Called(u) == page.uploads[u].result \in {"called", "returned", "threw", "previewed"}

\* p is e without the whitespace at its two ends, and is not empty.
IsTrimOf(p, e) ==
    /\ p # <<>>
    /\ p[1] \notin WhiteSpace /\ p[Len(p)] \notin WhiteSpace
    /\ \E i \in 0 .. Len(e) - Len(p) :
          /\ SubSeq(e, i + 1, i + Len(p)) = p
          /\ \A k \in 1 .. i : e[k] \in WhiteSpace
          /\ \A k \in i + Len(p) + 1 .. Len(e) : e[k] \in WhiteSpace

\* C11: processImage is never called with an empty or whitespace-only
\* text: for every upload, the text passed is "Protected by DocShield" if
\* the text entered when the upload started is empty once trimmed, and the
\* entered text trimmed otherwise.
C11_CallerPassesTrimmedOrDefault ==
    \A u \in Uploads :
        Called(u)
            => LET entered == page.uploads[u].entered
                   passed == page.uploads[u].passed
               IN  /\ passed # <<>> /\ ~AllWhitespace(passed)
                   /\ IF AllWhitespace(entered) THEN passed = DefaultText
                                                ELSE IsTrimOf(passed, entered)

\* processImage was called for an upload started with whitespace alone in
\* the text field and for one started with a word between spaces.
C11_Witness ==
    \E u, v \in Uploads :
        /\ Called(u) /\ page.uploads[u].entered = <<" ", " ">>
        /\ page.uploads[u].passed = DefaultText
        /\ Called(v) /\ page.uploads[v].entered = <<" ", "a", " ">>
        /\ page.uploads[v].passed = <<"a">>

\* Upload u's invocation is between its first write to the canvas and its
\* call of setPreview; it is inside processImage.
Writing(u) == page.uploads[u].at \in {"drawing", "serializing"}
InProcessImage(u) == page.uploads[u].at \in ProcSteps

\* C13: while one invocation is between its first canvas write and its
\* setPreview call, it alone is running and no other invocation is inside
\* processImage, so no step of another is taken in between; the page's one
\* canvas then holds that invocation's dimensions and drawings only, and
\* every URL given to setPreview is the composite of one invocation.
C13_PipelineRunsWithoutInterleaving ==
    /\ \A u \in Uploads :
          Writing(u)
              => /\ page.running = u
                 /\ \A v \in Uploads \ {u} : ~InProcessImage(v)
                 /\ page.canvas.dimsOf = u
                 /\ \A k \in DOMAIN page.canvas.layers : page.canvas.layers[k] = u
    /\ page.preview # NoPreview
          => /\ page.preview.dimsOf = page.preview.by
             /\ page.preview.layers # <<>>
             /\ \A k \in DOMAIN page.preview.layers :
                   page.preview.layers[k] = page.preview.by

\* Two uploads in flight on the one canvas: the second is about to call
\* setPreview on the canvas the first one painted and previewed, while the
\* first one's preview is still shown.
C13_Witness ==
    /\ page.uploads[1].result = "previewed"
    /\ page.preview.by = 1
    /\ page.uploads[2].at = "serializing"
    /\ page.canvas.dimsOf = 2

\* Upload u was started and its pipeline has not run yet.
Pending(u) == page.uploads[u].at \in {"reading", "decoding"}

\* C18, the first half: loading is true whenever an upload was started and
\* its pipeline has not yet run.
LoadingWhilePending ==
    (page.mounted /\ \E u \in Uploads : Pending(u)) => page.loading

\* C18, the second half: every upload that set loading to true is followed
\* by loading being false (on the page as long as it is mounted).
LoadingEventuallyCleared ==
    \A u \in Uploads :
        (page.uploads[u].at = "reading") ~> (~page.loading \/ ~page.mounted)

\* C18: under every interleaving of upload starts, file-read completions
\* and image-decode completions, loading is true in every state in which an
\* upload was started and its pipeline has not yet run, and every upload
\* that sets loading to true is eventually followed by loading being false.
C18_LoadingTrueWhilePendingThenCleared ==
    /\ []LoadingWhilePending
    /\ LoadingEventuallyCleared

\* With one upload at most in flight, loading is true while it is pending.
\* (Not the claim.)
LoadingWhileOnlyUploadPending ==
    (page.mounted /\ \E u \in Uploads :
        /\ Pending(u)
        /\ \A v \in Uploads \ {u} : page.uploads[v].at = "none")
        => page.loading

====
